---- MODULE Spec2Model ----
(***************************************************************************)
(* Cloze Mask Auto-Fill (Anki add-on), src/__init__.py.                    *)
(*                                                                         *)
(* Text is a sequence of one-character strings, so that str.find,          *)
(* slicing, str.strip, str.lower and str.split are computed character by   *)
(* character, as Python computes them.                                     *)
(***************************************************************************)
EXTENDS Integers, Sequences, FiniteSets, TLC

VARIABLES
    gen,      \* SpecGen: one call of generate_cloze_sentence, its arguments and result
    pop,      \* SpecPop: a record and a configuration, and the populate_cloze calls made on it
    hostCfg,  \* host configuration storage (mw.addonManager), None or a partial mapping
    CFG,      \* the module-level CFG dictionary
    hooked,   \* whether on_edit_focus is registered for "editFocusLost"
    notes,    \* host record storage (mw.col): note id -> note
    run,      \* the bulk run in progress or last ended
    calls,    \* host calls and user notifications of the handler in progress or last ended
    ev        \* the last field-defocus event the host raised, and what the add-on did

vars == <<gen, pop, hostCfg, CFG, hooked, notes, run, calls, ev>>

----------------------------------------------------------------------------
(* Bounds of the model *)

\* longest sentence drawn for generate_cloze_sentence
MaxSentenceLen == 4
\* longest word drawn for generate_cloze_sentence
MaxWordLen == 2
\* longest identifier list handed to bulk_generate_cloze
MaxNids == 2
\* most populate_cloze calls made on one record in SpecPop
MaxCalls == 2

----------------------------------------------------------------------------
(* Text *)

\* characters str.strip() removes
WS == {" ", "\t"}

Upper == <<"A","B","C","D","E","F","G","H","I","J","K","L","M",
           "N","O","P","Q","R","S","T","U","V","W","X","Y","Z">>
Lower == <<"a","b","c","d","e","f","g","h","i","j","k","l","m",
           "n","o","p","q","r","s","t","u","v","w","x","y","z">>

\* str.lower() on one character
lower_char(c) ==
    IF \E i \in 1..Len(Upper) : Upper[i] = c
    THEN Lower[CHOOSE i \in 1..Len(Upper) : Upper[i] = c]
    ELSE c

\* str.lower()
lower(s) == [k \in 1..Len(s) |-> lower_char(s[k])]

RECURSIVE lstrip(_)
lstrip(s) == IF s # <<>> /\ Head(s) \in WS THEN lstrip(Tail(s)) ELSE s

RECURSIVE rstrip(_)
rstrip(s) ==
    IF s # <<>> /\ s[Len(s)] \in WS THEN rstrip(SubSeq(s, 1, Len(s) - 1)) ELSE s

\* str.strip()
strip(s) == rstrip(lstrip(s))

\* s[a:b] for 0 <= a, b (Python slice, 0-based, end exclusive)
slice(s, a, b) == SubSeq(s, a + 1, IF b > Len(s) THEN Len(s) ELSE b)

RECURSIVE find_from(_, _, _)
find_from(s, w, i) ==
    IF i + Len(w) > Len(s) THEN -1
    ELSE IF slice(s, i, i + Len(w)) = w THEN i
    ELSE find_from(s, w, i + 1)

RECURSIVE rfind_from(_, _, _)
rfind_from(s, w, i) ==
    IF i < 0 THEN -1
    ELSE IF slice(s, i, i + Len(w)) = w THEN i
    ELSE rfind_from(s, w, i - 1)

\* str.rfind(w): the highest index at which w occurs in s, -1 when none
rfind(s, w) == rfind_from(s, w, Len(s) - Len(w))

\* str.find(w): the lowest index at which w occurs in s, -1 when none
find(s, w) == find_from(s, w, 0)

\* w in s
contains(s, w) == find(s, w) # -1

RECURSIVE split_from(_, _, _)
split_from(s, sep, cur) ==
    IF s = <<>> THEN <<cur>>
    ELSE IF Head(s) = sep THEN <<cur>> \o split_from(Tail(s), sep, <<>>)
    ELSE split_from(Tail(s), sep, Append(cur, Head(s)))

\* str.split(sep) for a one-character separator
split(s, sep) == split_from(s, sep, <<>>)

\* "no value" results carry val = <<>> and ok = FALSE
NoneVal == [ok |-> FALSE, val |-> <<>>]
Some(v) == [ok |-> TRUE, val |-> v]

----------------------------------------------------------------------------
(* Mask Generator *)

\* generate_cloze_sentence searching from the right: the last occurrence is replaced
generate_cloze_last(sentence, word, mask) ==
    IF sentence = <<>> \/ word = <<>> THEN NoneVal
    ELSE LET idx == rfind(sentence, word) IN
         IF idx = -1 THEN NoneVal
         ELSE LET before == slice(sentence, 0, idx)
                  after  == slice(sentence, idx + Len(word), Len(sentence))
              IN  Some(before \o mask \o after)

generate_cloze_sentence(sentence, word, mask) ==
    IF sentence = <<>> \/ word = <<>> THEN NoneVal
    ELSE LET idx == find(sentence, word) IN
         IF idx = -1 THEN NoneVal
         ELSE LET before == slice(sentence, 0, idx)
                  after  == slice(sentence, idx + Len(word), Len(sentence))
              IN  Some(before \o mask \o after)

RECURSIVE SeqsUpTo(_, _)
SeqsUpTo(A, n) ==
    IF n = 0 THEN {<<>>}
    ELSE LET shorter == SeqsUpTo(A, n - 1)
         IN  shorter \cup {Append(s, c) : s \in {t \in shorter : Len(t) = n - 1}, c \in A}

GenSentences == SeqsUpTo({"a", "b"}, MaxSentenceLen)
GenWords     == SeqsUpTo({"a", "b"}, MaxWordLen) \cup {<<"A">>}
GenMasks     == {<<"#", "#", "#">>, <<>>, <<"a">>}

\* the variables of the other specifications rest at these values
GenIdle == [sentence |-> <<>>, word |-> <<>>, mask |-> <<>>, done |-> TRUE,
            out |-> NoneVal]
NoCall  == [made |-> FALSE]
NoEvent == [made |-> FALSE]
RunIdle == [pc |-> "idle", nids |-> <<>>, i |-> 0, changed |-> 0]

GenInit ==
    /\ gen \in [sentence : GenSentences, word : GenWords, mask : GenMasks,
                done : {FALSE}, out : {NoneVal}]
    /\ pop = [note |-> <<>>, cfg |-> <<>>, n |-> 0, prev |-> NoCall, last |-> NoCall]
    /\ hostCfg = <<>> /\ CFG = <<>> /\ hooked = FALSE /\ notes = <<>>
    /\ run = RunIdle /\ calls = <<>> /\ ev = NoEvent

\* the call generate_cloze_sentence(sentence, word, mask)
Generate ==
    /\ ~gen.done
    /\ gen' = [gen EXCEPT !.done = TRUE,
                          !.out = generate_cloze_sentence(gen.sentence, gen.word, gen.mask)]
    /\ UNCHANGED <<pop, hostCfg, CFG, hooked, notes, run, calls, ev>>

----------------------------------------------------------------------------
(* Configuration *)

S_Sentence      == <<"S","e","n","t","e","n","c","e">>
S_Reading       == <<"R","e","a","d","i","n","g">>
S_ClozeSentence == <<"C","l","o","z","e","S","e","n","t","e","n","c","e">>
\* "#" stands for the character U+25FC of the default mask
S_Mask          == <<"#","#","#">>
S_BulkLabel     == <<"G","e","n","e","r","a","t","e"," ","C","l","o","z","e"," ",
                     "M","a","s","k","s">>

Keys == {"sentenceField", "wordField", "destinationField", "noteTypes",
         "lookupOnAdd", "maskString", "bulkActionLabel", "debug"}

_defaults ==
    [sentenceField    |-> S_Sentence,
     wordField        |-> S_Reading,
     destinationField |-> S_ClozeSentence,
     noteTypes        |-> <<>>,
     lookupOnAdd      |-> TRUE,
     maskString       |-> S_Mask,
     bulkActionLabel  |-> S_BulkLabel,
     debug            |-> FALSE]

\* {**_defaults(), **user}, user being getConfig(...) or {}
\* (a host storage that holds nothing, None, is the empty mapping)
_load_cfg(user) ==
    [k \in Keys |-> IF k \in DOMAIN user THEN user[k] ELSE _defaults[k]]

----------------------------------------------------------------------------
(* Records (notes) *)

\* a note: its id (0 while not yet added), note_type() (None, or its name),
\* and its fields in schema order: names[i] holds vals[i]
has_field(note, f) == \E i \in 1..Len(note.names) : note.names[i] = f

\* list.index(f): the first position of f, 0-based
field_index(names, f) == (CHOOSE i \in 1..Len(names) :
                             names[i] = f /\ \A j \in 1..(i - 1) : names[j] # f) - 1

get_field(note, f) == note.vals[field_index(note.names, f) + 1]

set_field(note, f, v) ==
    [note EXCEPT !.vals[field_index(note.names, f) + 1] = v]

----------------------------------------------------------------------------
(* Record Populator *)

\* [t.strip().lower() for t in str(noteTypes).split(",") if t.strip()]
nt_filter_of(noteTypes) ==
    LET toks == SelectSeq(split(noteTypes, ","), LAMBDA t : strip(t) # <<>>)
    IN  [k \in 1..Len(toks) |-> lower(strip(toks[k]))]

\* the filter with all() in place of any()
type_filtered_all(nt_filter, note_name) ==
    /\ nt_filter # <<>>
    /\ ~ \A k \in 1..Len(nt_filter) : contains(note_name, nt_filter[k])

\* nt_filter and not any(t in note_name for t in nt_filter)
type_filtered(nt_filter, note_name) ==
    /\ nt_filter # <<>>
    /\ ~ \E k \in 1..Len(nt_filter) : contains(note_name, nt_filter[k])

\* the outcome of one call: raised (an exception left the call), ret (the value
\* returned), site (the source line of the return or raise), note (the record after)
Outcome(raised, ret, site, note) ==
    [raised |-> raised, ret |-> ret, site |-> site, note |-> note]

\* write-back that clears the destination when the word is not found
write_back_clearing(note, dest_field, clozed) ==
    IF ~clozed.ok THEN Outcome(FALSE, FALSE, 143, set_field(note, dest_field, <<>>))
    ELSE Outcome(FALSE, TRUE, 147, set_field(note, dest_field, clozed.val))

\* write-back that appends to the destination (note[dest_field] += clozed)
write_back_appending(note, dest_field, clozed) ==
    IF ~clozed.ok THEN Outcome(FALSE, FALSE, 143, note)
    ELSE Outcome(FALSE, TRUE, 147,
                 set_field(note, dest_field, get_field(note, dest_field) \o clozed.val))

\* lines 141-147: clozed is None: return False; else note[dest_field] = clozed, True
write_back(note, dest_field, clozed) ==
    IF ~clozed.ok THEN Outcome(FALSE, FALSE, 143, note)
    ELSE Outcome(FALSE, TRUE, 147, set_field(note, dest_field, clozed.val))

populate_cloze(note, cfg) ==
    LET nt_filter == nt_filter_of(cfg.noteTypes) IN
    IF ~note.ntype.ok
    THEN \* note.note_type() is None: None["name"] raises TypeError
         Outcome(TRUE, FALSE, 113, note)
    ELSE
    LET note_name == lower(note.ntype.val) IN
    IF type_filtered(nt_filter, note_name) THEN Outcome(FALSE, FALSE, 117, note)
    ELSE
    LET sentence_field == cfg.sentenceField
        word_field     == cfg.wordField
        dest_field     == cfg.destinationField
        mask           == cfg.maskString
    IN
    IF ~has_field(note, sentence_field) \/ ~has_field(note, word_field)
          \/ ~has_field(note, dest_field)
    THEN Outcome(FALSE, FALSE, 127, note)
    ELSE
    LET sentence == strip(get_field(note, sentence_field))
        word     == strip(get_field(note, word_field))
    IN
    IF sentence = <<>> \/ word = <<>> THEN Outcome(FALSE, FALSE, 138, note)
    ELSE
    write_back(note, dest_field, generate_cloze_sentence(sentence, word, mask))

----------------------------------------------------------------------------
(* SpecPop: populate_cloze on one record, the user editing its fields between calls *)

S_VocabNoun == <<"V","o","c","a","b"," ","N","o","u","n">>
S_Verb      == <<"V","e","r","b">>
S_Notes     == <<"N","o","t","e","s">>

PopTypes == {Some(S_VocabNoun), Some(S_Verb), NoneVal}
PopNames == {<<S_Sentence, S_Reading, S_ClozeSentence>>,
             <<S_Sentence, S_Reading, S_Notes>>}
PopSentences == {<<>>, <<"a","b">>, <<" ","a","b","a","b"," ">>}
PopWords     == {<<>>, <<"a","b">>, <<"b"," ">>, <<"c">>}
PopDests     == {<<>>, <<"#","#","#","a","b">>, <<"x">>}

\* records of every kind the populator tells apart: well-formed ones with every
\* sentence, word and destination value; other types (one of them missing); and a
\* schema without the destination field
PopNotes ==
    {[id |-> 1, ntype |-> Some(S_VocabNoun),
      names |-> <<S_Sentence, S_Reading, S_ClozeSentence>>, vals |-> <<s, w, d>>] :
        s \in PopSentences, w \in PopWords, d \in PopDests}
    \cup {[id |-> 1, ntype |-> t,
           names |-> <<S_Sentence, S_Reading, S_ClozeSentence>>,
           vals |-> <<<<"a","b">>, <<"a","b">>, d>>] :
             t \in {Some(S_Verb), NoneVal}, d \in {<<>>, <<"x">>}}
    \cup {[id |-> 1, ntype |-> Some(S_Verb),
           names |-> <<S_Sentence, S_Reading, S_Notes>>,
           vals |-> <<<<"a","b">>, <<"a","b">>, <<"x">>>>]}

\* noteTypes as typed by the user: "", "verb,adj", " , ", "NOUN ,x"
PopNoteTypes == {<<>>,
                 <<"v","e","r","b",",","a","d","j">>,
                 <<" ",","," ">>,
                 <<"N","O","U","N"," ",",","x">>}

PopCfgs ==
    {[_defaults EXCEPT !.noteTypes = nt] : nt \in PopNoteTypes}
    \cup {[_defaults EXCEPT !.destinationField = S_Sentence],
          [_defaults EXCEPT !.maskString = <<"a","b">>]}

\* what a later call is compared with: the configuration and source values a
\* successful call read, and the value it wrote
Summary(c) ==
    IF c.made /\ c.out.ret
    THEN [made |-> TRUE, cfg |-> c.cfg,
          sentence |-> get_field(c.before, c.cfg.sentenceField),
          word |-> get_field(c.before, c.cfg.wordField),
          written |-> get_field(c.out.note, c.cfg.destinationField)]
    ELSE NoCall

PopInit ==
    /\ pop \in [note : PopNotes, cfg : PopCfgs, n : {0}, prev : {NoCall},
                last : {NoCall}]
    /\ gen = GenIdle
    /\ hostCfg = <<>> /\ CFG = <<>> /\ hooked = FALSE /\ notes = <<>>
    /\ run = RunIdle /\ calls = <<>> /\ ev = NoEvent

\* populate_cloze(note) under CFG = pop.cfg; an exception leaves the record as it was
PopCall ==
    /\ pop.n < MaxCalls
    /\ LET out == populate_cloze(pop.note, pop.cfg) IN
       pop' = [pop EXCEPT !.note = out.note,
                          !.n = @ + 1,
                          !.prev = IF pop.last.made THEN Summary(pop.last) ELSE @,
                          !.last = [made |-> TRUE, cfg |-> pop.cfg,
                                    before |-> pop.note, out |-> out]]
    /\ UNCHANGED <<gen, hostCfg, CFG, hooked, notes, run, calls, ev>>

\* between two calls the user types a new value into field i of the record
PopEdit ==
    /\ pop.n > 0 /\ pop.n < MaxCalls
    /\ \E i \in 1..Len(pop.note.vals), v \in {<<>>, <<"a","b">>} :
          /\ pop.note.vals[i] # v
          /\ pop' = [pop EXCEPT !.note.vals[i] = v,
                                !.prev = IF pop.last.made THEN Summary(pop.last) ELSE @,
                                !.last = NoCall]
    /\ UNCHANGED <<gen, hostCfg, CFG, hooked, notes, run, calls, ev>>

\* between two calls the configuration in force changes
PopReconfigure ==
    /\ pop.n > 0 /\ pop.n < MaxCalls
    /\ \E c \in PopCfgs :
          /\ c # pop.cfg
          /\ pop' = [pop EXCEPT !.cfg = c,
                                !.prev = IF pop.last.made THEN Summary(pop.last) ELSE @,
                                !.last = NoCall]
    /\ UNCHANGED <<gen, hostCfg, CFG, hooked, notes, run, calls, ev>>

----------------------------------------------------------------------------
(* The add-on in its host: configuration, the defocus hook, the bulk action *)

NoteIds == {1, 2}

\* what host record storage may hold under one identifier
SysNotes(nid) ==
    LET mk(t, s, w, d) == [id |-> nid, ntype |-> t,
                           names |-> <<S_Sentence, S_Reading, S_ClozeSentence>>,
                           vals |-> <<s, w, d>>]
    IN  {mk(Some(S_VocabNoun), <<"a","b">>, <<"b">>, <<>>),
         mk(Some(S_VocabNoun), <<"a","b">>, <<"b">>, <<"a","#","#","#">>),
         mk(Some(S_VocabNoun), <<"a","b">>, <<"c">>, <<"x">>),
         mk(NoneVal, <<"a","b">>, <<"b">>, <<>>)}

\* what host configuration storage may hold when the user has not saved the form
HostCfgs ==
    {<<>>,
     [lookupOnAdd |-> FALSE],
     [maskString |-> <<" ">>],
     [bulkActionLabel |-> <<>>, noteTypes |-> <<"v","e","r","b">>]}

Call(op, nid, n) == [op |-> op, nid |-> nid, n |-> n]
Tip(text, n) == Call(text, 0, n)

\* module import: CFG = _load_cfg() (line 73); the hook is registered only when
\* CFG.get("lookupOnAdd", True) holds then (lines 185-186)
SysInit ==
    /\ hostCfg \in HostCfgs
    /\ CFG = _load_cfg(hostCfg)
    /\ hooked = CFG.lookupOnAdd
    /\ notes \in {f \in [NoteIds -> UNION {SysNotes(n) : n \in NoteIds}] :
                    \A n \in NoteIds : f[n] \in SysNotes(n)}
    /\ run = RunIdle
    /\ calls = <<>>
    /\ ev = NoEvent
    /\ gen = GenIdle
    /\ pop = [note |-> <<>>, cfg |-> <<>>, n |-> 0, prev |-> NoCall, last |-> NoCall]

\* the user edits the add-on's configuration in the host's own configuration editor
HostConfigEdited ==
    /\ run.pc # "loop"
    /\ \E u \in HostCfgs : u # hostCfg /\ hostCfg' = u
    /\ run' = RunIdle /\ calls' = <<>> /\ ev' = NoEvent
    /\ UNCHANGED <<gen, pop, CFG, hooked, notes>>

\* show_options, the dialog rejected: CFG is reloaded and nothing else happens
ShowOptionsCancel ==
    /\ run.pc # "loop"
    /\ CFG' = _load_cfg(hostCfg)
    /\ run' = RunIdle /\ calls' = <<>> /\ ev' = NoEvent
    /\ UNCHANGED <<gen, pop, hostCfg, hooked, notes>>

\* text.strip() or default
text_or(text, default) == IF strip(text) = <<>> THEN default ELSE strip(text)

\* lines 267-276: the configuration built from the form
new_cfg(cur, w_sentence, w_word, w_dest, w_types, w_mask, w_lookup, w_debug) ==
    [sentenceField    |-> text_or(w_sentence, S_Sentence),
     wordField        |-> text_or(w_word, S_Reading),
     destinationField |-> text_or(w_dest, S_ClozeSentence),
     noteTypes        |-> strip(w_types),
     maskString       |-> text_or(w_mask, S_Mask),
     lookupOnAdd      |-> w_lookup,
     bulkActionLabel  |-> cur.bulkActionLabel,
     debug            |-> w_debug]

\* show_options, the dialog accepted: CFG reloaded, the form (prefilled from CFG,
\* edited by the user) saved with _save_cfg, CFG reloaded again
ShowOptionsAccept ==
    /\ run.pc # "loop"
    /\ LET cur == _load_cfg(hostCfg) IN
       \E w_sentence \in {cur.sentenceField, <<" ">>},
          w_types \in {cur.noteTypes, <<" ","v","e","r","b">>},
          w_mask \in {cur.maskString, <<>>},
          w_lookup \in BOOLEAN :
            LET saved == new_cfg(cur, w_sentence, cur.wordField, cur.destinationField,
                                 w_types, w_mask, w_lookup, cur.debug)
            IN  /\ hostCfg' = saved
                /\ CFG' = _load_cfg(saved)
    /\ run' = RunIdle /\ calls' = <<>> /\ ev' = NoEvent
    /\ UNCHANGED <<gen, pop, hooked, notes>>

\* on_edit_focus(flag, note, field_idx) under CFG = cfg: whether populate_cloze ran,
\* its outcome, whether note.flush() was called, whether an exception left the handler
on_edit_focus(note, field_idx, cfg) ==
    LET nothing == [populated |-> FALSE, out |-> Outcome(FALSE, FALSE, 0, note),
                    flushed |-> FALSE, raised |-> FALSE]
    IN
    IF ~cfg.lookupOnAdd THEN nothing
    ELSE IF ~note.ntype.ok
    THEN \* col.models.field_names(None) raises
         [nothing EXCEPT !.raised = TRUE]
    ELSE
    LET field_names == note.names
        sent_hit == /\ has_field(note, cfg.sentenceField)
                    /\ field_idx = field_index(field_names, cfg.sentenceField)
        word_hit == /\ has_field(note, cfg.wordField)
                    /\ field_idx = field_index(field_names, cfg.wordField)
    IN
    IF sent_hit \/ word_hit
    THEN LET out == populate_cloze(note, cfg) IN
         [populated |-> TRUE, out |-> out, flushed |-> out.ret, raised |-> out.raised]
    ELSE nothing

\* the host raises "editFocusLost" for field field_idx of note nid: every
\* registered hook runs
Defocus(nid, field_idx) ==
    /\ run.pc # "loop"
    /\ LET note == notes[nid]
           r == IF hooked THEN on_edit_focus(note, field_idx, CFG)
                ELSE [populated |-> FALSE, out |-> Outcome(FALSE, FALSE, 0, note),
                      flushed |-> FALSE, raised |-> FALSE]
       IN
       /\ ev' = [made |-> TRUE, cfg |-> CFG, note |-> note, idx |-> field_idx,
                 populated |-> r.populated, ret |-> r.out.ret,
                 flushed |-> r.flushed, raised |-> r.raised]
       /\ notes' = [notes EXCEPT ![nid] = r.out.note]
       /\ calls' = IF r.flushed THEN <<Call("flush", nid, 0)>> ELSE <<>>
    /\ run' = RunIdle
    /\ UNCHANGED <<gen, pop, hostCfg, CFG, hooked>>

\* bulk_generate_cloze without the "if not nids" return
BulkStartUnguarded(nids) ==
    /\ run.pc # "loop"
    /\ CFG' = _load_cfg(hostCfg)
    /\ ev' = NoEvent
    /\ calls' = <<>>
    /\ run' = [pc |-> "loop", nids |-> nids, i |-> 0, changed |-> 0]
    /\ UNCHANGED <<gen, pop, hostCfg, hooked, notes>>

\* bulk_generate_cloze(nids), lines 193-200: CFG reloaded; nothing selected, or the
\* loop is entered
BulkStart(nids) ==
    /\ run.pc # "loop"
    /\ CFG' = _load_cfg(hostCfg)
    /\ ev' = NoEvent
    /\ IF nids = <<>>
       THEN /\ calls' = <<Tip("No notes selected", 0)>>
            /\ run' = [pc |-> "done", nids |-> nids, i |-> 0, changed |-> 0]
       ELSE /\ calls' = <<>>
            /\ run' = [pc |-> "loop", nids |-> nids, i |-> 0, changed |-> 0]
    /\ UNCHANGED <<gen, pop, hostCfg, hooked, notes>>

\* the loop body with "changed += 1" outside the "if populate_cloze(note)"
BulkStepCountingAll ==
    /\ run.pc = "loop" /\ run.i < Len(run.nids)
    /\ LET nid  == run.nids[run.i + 1]
           note == notes[nid]
           out  == populate_cloze(note, CFG)
           got  == <<Call("get_note", nid, 0)>>
       IN
       IF out.raised
       THEN /\ run' = [run EXCEPT !.pc = "raised"]
            /\ calls' = calls \o got
            /\ UNCHANGED notes
       ELSE /\ run' = [run EXCEPT !.i = @ + 1, !.changed = @ + 1]
            /\ calls' = calls \o got
                          \o <<Call("populate_cloze", nid, IF out.ret THEN 1 ELSE 0)>>
                          \o (IF out.ret /\ out.note.id # 0
                              THEN <<Call("update_note", nid, 0)>> ELSE <<>>)
            /\ notes' = [notes EXCEPT ![nid] = out.note]
    /\ UNCHANGED <<gen, pop, hostCfg, CFG, hooked, ev>>

\* one iteration of the loop, lines 201-206; an exception raised by populate_cloze
\* leaves bulk_generate_cloze
BulkStep ==
    /\ run.pc = "loop" /\ run.i < Len(run.nids)
    /\ LET nid  == run.nids[run.i + 1]
           note == notes[nid]
           out  == populate_cloze(note, CFG)
           got  == <<Call("get_note", nid, 0)>>
       IN
       IF out.raised
       THEN /\ run' = [run EXCEPT !.pc = "raised"]
            /\ calls' = calls \o got
            /\ UNCHANGED notes
       ELSE /\ run' = [run EXCEPT !.i = @ + 1,
                                  !.changed = IF out.ret THEN @ + 1 ELSE @]
            /\ calls' = calls \o got
                          \o <<Call("populate_cloze", nid, IF out.ret THEN 1 ELSE 0)>>
                          \o (IF out.ret /\ out.note.id # 0
                              THEN <<Call("update_note", nid, 0)>> ELSE <<>>)
            /\ notes' = [notes EXCEPT ![nid] = out.note]
    /\ UNCHANGED <<gen, pop, hostCfg, CFG, hooked, ev>>

\* lines 208-212: the summary
BulkFinish ==
    /\ run.pc = "loop" /\ run.i = Len(run.nids)
    /\ calls' = Append(calls, IF run.changed # 0 THEN Tip("Updated", run.changed)
                              ELSE Tip("No notes needed", 0))
    /\ run' = [run EXCEPT !.pc = "done"]
    /\ UNCHANGED <<gen, pop, hostCfg, CFG, hooked, notes, ev>>

NidLists == SeqsUpTo(NoteIds, MaxNids)

Next ==
    \/ HostConfigEdited
    \/ ShowOptionsCancel
    \/ ShowOptionsAccept
    \/ \E nid \in NoteIds, field_idx \in 0..2 : Defocus(nid, field_idx)
    \/ \E nids \in NidLists : BulkStart(nids)
    \/ BulkStep
    \/ BulkFinish

SpecGen == GenInit /\ [][Generate]_vars

PopNext == PopCall \/ PopEdit \/ PopReconfigure
SpecPop == PopInit /\ [][PopNext]_vars

Spec == SysInit /\ [][Next]_vars

----------------------------------------------------------------------------
(* Properties *)

\* W occurs in S at 0-based index i
Occurs(S, W, i) ==
    /\ i >= 0 /\ i + Len(W) <= Len(S)
    /\ \A k \in 1..Len(W) : S[i + k] = W[k]

\* the result the contract of the Mask Generator describes
RefGenerate(S, W, M) ==
    IF S = <<>> \/ W = <<>> \/ ~ \E i \in 0..Len(S) : Occurs(S, W, i)
    THEN NoneVal
    ELSE LET i == CHOOSE i \in 0..Len(S) :
                     Occurs(S, W, i) /\ \A j \in 0..(i - 1) : ~Occurs(S, W, j)
         IN  Some([k \in 1..(Len(S) - Len(W) + Len(M)) |->
                     IF k <= i THEN S[k]
                     ELSE IF k <= i + Len(M) THEN M[k - i]
                     ELSE S[k - Len(M) + Len(W)]])

\* C1: generate_cloze_sentence(S, W, M) is None when S or W is empty or W does not
\* occur in S (case-sensitively), and otherwise S with the span of the first
\* occurrence of W, and nothing else, replaced by M.
C1_GenerateMatchesReference ==
    gen.done => gen.out = RefGenerate(gen.sentence, gen.word, gen.mask)

\* a call on a sentence in which the word occurs more than once
C1_Witness ==
    /\ gen.done /\ gen.out.ok
    /\ Cardinality({i \in 0..Len(gen.sentence) :
                       Occurs(gen.sentence, gen.word, i)}) >= 2
    /\ gen.mask = S_Mask

\* C2: a populate_cloze call that returns false has changed no field of the record.
C2_FalseLeavesRecordUnchanged ==
    (pop.last.made /\ ~pop.last.out.raised /\ ~pop.last.out.ret)
        => /\ pop.last.out.note = pop.last.before
           /\ pop.note = pop.last.before

\* a call that returns false because the word is not in the sentence, on a record
\* whose destination field holds text
C2_Witness ==
    /\ pop.last.made /\ ~pop.last.out.ret /\ pop.last.out.site = 143
    /\ has_field(pop.note, pop.last.cfg.destinationField)
    /\ get_field(pop.note, pop.last.cfg.destinationField) # <<>>

\* the comma-separated pieces of s, as pairs of positions
Segments(s) ==
    {p \in (0..Len(s)) \X (0..Len(s)) :
        /\ p[1] <= p[2]
        /\ p[1] = 0 \/ s[p[1]] = ","
        /\ p[2] = Len(s) \/ s[p[2] + 1] = ","
        /\ \A k \in (p[1] + 1)..p[2] : s[k] # ","}

\* the non-empty filter tokens of a noteTypes option, trimmed and in lowercase
RefTokens(s) ==
    {lower(strip(SubSeq(s, p[1] + 1, p[2]))) : p \in Segments(s)} \ {<<>>}

RefTypePasses(noteTypes, name) ==
    \/ RefTokens(noteTypes) = {}
    \/ \E t \in RefTokens(noteTypes) :
          \E i \in 0..Len(name) : Occurs(lower(name), t, i)

\* C3: populate_cloze filters a record out by its type (and returns false) exactly
\* when noteTypes has a non-empty token and the lowercase type name contains none of
\* the tokens; with no token every type passes.
C3_TypeFilter ==
    (pop.last.made /\ pop.last.before.ntype.ok)
        => /\ (pop.last.out.site = 117)
                <=> ~RefTypePasses(pop.last.cfg.noteTypes, pop.last.before.ntype.val)
           /\ pop.last.out.site = 117
                => ~pop.last.out.ret /\ pop.last.out.note = pop.last.before

\* noteTypes = "verb,adj" and a record of type "Vocab Noun" whose fields would
\* otherwise be filled
C3_Witness ==
    /\ pop.last.made
    /\ pop.last.cfg.noteTypes = <<"v","e","r","b",",","a","d","j">>
    /\ pop.last.before.ntype = Some(S_VocabNoun)
    /\ pop.last.before.vals = <<<<"a","b">>, <<"a","b">>, <<>>>>
    /\ pop.last.out.site = 117 /\ ~pop.last.out.ret

\* C7: populate_cloze returns true only when the destination field's value after
\* the call differs from its value before the call.
C7_TrueOnlyIfChanged ==
    (pop.last.made /\ pop.last.out.ret)
        => get_field(pop.last.out.note, pop.last.cfg.destinationField)
              # get_field(pop.last.before, pop.last.cfg.destinationField)

\* C9: when a populate_cloze call returned true and the next call on the record finds
\* the same sentence value, word value and configuration, the destination field
\* holds after it exactly the value the first call wrote.
C9_Idempotent ==
    (/\ pop.prev.made /\ pop.last.made
     /\ pop.last.cfg = pop.prev.cfg
     /\ get_field(pop.last.before, pop.last.cfg.sentenceField) = pop.prev.sentence
     /\ get_field(pop.last.before, pop.last.cfg.wordField) = pop.prev.word)
        => /\ ~pop.last.out.raised
           /\ get_field(pop.note, pop.last.cfg.destinationField) = pop.prev.written

\* a second call with unchanged sources, after the user has overwritten the
\* destination between the calls
C9_Witness ==
    /\ pop.prev.made /\ pop.last.made
    /\ pop.last.cfg = pop.prev.cfg
    /\ get_field(pop.last.before, pop.last.cfg.sentenceField) = pop.prev.sentence
    /\ get_field(pop.last.before, pop.last.cfg.wordField) = pop.prev.word
    /\ get_field(pop.last.before, pop.last.cfg.destinationField) # pop.prev.written
    /\ pop.last.out.ret

CallsOf(op) == SelectSeq(calls, LAMBDA c : c.op = op)

\* C4: in a bulk run the records are fetched in the order of the identifiers, once
\* each; a record populate_cloze reports changed is handed to update_note before the
\* next fetch (and no other record is); the count reported at the end is the number
\* of update_note calls of the run.
C4_BulkOrderAndCount ==
    (run.pc \in {"loop", "done", "raised"} /\ run.nids # <<>>)
        => /\ LET gets == CallsOf("get_note") IN
              /\ Len(gets) = run.i + (IF run.pc = "raised" THEN 1 ELSE 0)
              /\ \A k \in 1..Len(gets) : gets[k].nid = run.nids[k]
           /\ \A p \in 1..Len(calls) :
                 /\ calls[p].op = "populate_cloze"
                       => /\ p > 1 /\ calls[p - 1] = Call("get_note", calls[p].nid, 0)
                          /\ (calls[p].n = 1)
                                <=> (/\ p < Len(calls)
                                     /\ calls[p + 1] = Call("update_note", calls[p].nid, 0))
                 /\ calls[p].op = "update_note"
                       => p > 1 /\ calls[p - 1] = Call("populate_cloze", calls[p].nid, 1)
           /\ run.pc = "done"
                 => LET n == Len(CallsOf("update_note")) IN
                    /\ Len(CallsOf("get_note")) = Len(run.nids)
                    /\ calls[Len(calls)] = (IF n > 0 THEN Tip("Updated", n)
                                            ELSE Tip("No notes needed", 0))

\* a finished run over two identifiers, one record changed and one not
C4_Witness ==
    /\ run.pc = "done" /\ Len(run.nids) = 2
    /\ Len(CallsOf("update_note")) = 1
    /\ calls[Len(calls)] = Tip("Updated", 1)
    /\ \E p \in 1..Len(calls) : calls[p].op = "populate_cloze" /\ calls[p].n = 0

\* C5: a failure while populate_cloze reads a record's type or fields does not leave
\* populate_cloze: a bulk run that has ended has fetched every identifier and reported
\* its summary.
C5_FailureContained ==
    (run.pc \notin {"idle", "loop"} /\ run.nids # <<>>)
        => /\ run.pc = "done"
           /\ Len(CallsOf("get_note")) = Len(run.nids)
           /\ calls[Len(calls)].op \in {"Updated", "No notes needed"}

\* C6: on a field-defocus event populate_cloze runs exactly when lookupOnAdd is set
\* in the configuration in force and the field is the configured sentence or word
\* field, and the record is flushed exactly when that run reports a change.
C6_DefocusFollowsConfiguration ==
    (ev.made /\ ev.note.ntype.ok)
        => /\ ev.populated
                <=> /\ ev.cfg.lookupOnAdd
                    /\ \/ /\ has_field(ev.note, ev.cfg.sentenceField)
                          /\ ev.idx = field_index(ev.note.names, ev.cfg.sentenceField)
                       \/ /\ has_field(ev.note, ev.cfg.wordField)
                          /\ ev.idx = field_index(ev.note.names, ev.cfg.wordField)
           /\ ev.flushed <=> (ev.populated /\ ev.ret)

StringOptions == {"sentenceField", "wordField", "destinationField", "maskString",
                  "bulkActionLabel"}

\* C8: every string option of CFG that has a non-empty default is non-empty after
\* trimming.
C8_StringOptionsNonEmpty ==
    \A k \in StringOptions : strip(CFG[k]) # <<>>

\* C10: a bulk run over no identifiers reports "No notes selected" and does nothing
\* else: no fetch, no update, no other summary.
C10_EmptySelection ==
    (run.pc # "idle" /\ run.nids = <<>>)
        => run.pc = "done" /\ calls = <<Tip("No notes selected", 0)>>

\* a bulk run over no identifiers has been made
C10_Witness ==
    /\ run.pc = "done" /\ run.nids = <<>>
    /\ calls = <<Tip("No notes selected", 0)>>

====
